---- MODULE Spec2Model ----
(***************************************************************************)
(* Model of dclab's DCOR client (dclab/rtdc_dataset/fmt_dcor.py):          *)
(* APIHandler (query cache over the HTTP transport), the event-wise        *)
(* accessors EventFeature / EventTrace / EventTraceFeature, the            *)
(* FeatureCache directory and the RTDC_DCOR dataset object.                *)
(*                                                                         *)
(* Python exceptions are modelled by their class name:                     *)
(*   ConnectionError  - the spec's RemoteAccessError                       *)
(*   AssertionError   - the spec's UnknownFeatureError                     *)
(*   KeyError         - the spec's FeatureNotFoundError                    *)
(* Optional arguments are <<>> for None and <<v>> for a value v.           *)
(***************************************************************************)
EXTENDS Integers, Sequences, FiniteSets, Bags, TLC

\* ------------------------------------------------------------------ bounds
MaxSize == 2      \* largest dataset size the remote side may report
MaxCalls == 5     \* cap on the number of transport calls (dataset object)
MaxApiCalls == 3  \* cap on the number of transport calls (bare APIHandler)

\* ----------------------------------------------------------------- strings
\* URLs are sequences of lexemes, so that count/split/format are real: the
\* separators "://" and "/" that get_full_url looks for are lexemes of their
\* own up to the first "/" after the host; what follows that "/" is never
\* inspected and is kept in one piece.
None == <<>>
Some(v) == <<v>>

SEP == <<"://">>
SLASH == <<"/">>
API_PREFIX == <<"api/3/action/dcserv?id=">>
HTTPS == <<"https">>
HTTP == <<"http">>

\* lowest index at which sub occurs in s, 0 when it does not occur
Find(sub, s) ==
  LET hits == {i \in 1..(Len(s) - Len(sub) + 1) :
                 SubSeq(s, i, i + Len(sub) - 1) = sub}
  IN IF hits = {} THEN 0 ELSE CHOOSE i \in hits : \A j \in hits : i <= j

\* str.split(sep, 1) when sep occurs in s
Split1(s, sep) ==
  LET i == Find(sep, s)
  IN <<SubSeq(s, 1, i - 1), SubSeq(s, i + Len(sep), Len(s))>>

\* "{}".format(event) for the event indices of the model
Digits == <<"0","1","2","3","4","5","6","7","8","9">>
ToStr(i) == Digits[i + 1]

\* mutation of get_full_url: the host named in the locator is dropped
get_full_url_defaulthost(url, use_ssl, host) ==
  LET web == IF use_ssl THEN HTTPS ELSE HTTP
      base == IF Find(SEP, url) # 0 THEN Split1(url, SEP)[2] ELSE url
      hasSlash == Find(SLASH, base) # 0
      api == IF hasSlash THEN Split1(base, SLASH)[2] ELSE API_PREFIX \o base
  IN web \o SEP \o host \o SLASH \o api

\* RTDC_DCOR.get_full_url
get_full_url(url, use_ssl, host) ==
  LET web == IF use_ssl THEN HTTPS ELSE HTTP
      base == IF Find(SEP, url) # 0 THEN Split1(url, SEP)[2] ELSE url
      hasSlash == Find(SLASH, base) # 0
      host2 == IF hasSlash THEN Split1(base, SLASH)[1] ELSE host
      api == IF hasSlash THEN Split1(base, SLASH)[2] ELSE API_PREFIX \o base
  IN web \o SEP \o host2 \o SLASH \o api

\* util.hashobj: a digest of the hashed object, injective in the model
hashobj(tohash) == <<"md5", tohash>>

\* -------------------------------------------------------------- vocabulary
\* dclab.definitions: feature_names and its scalar subset
feature_names == {"area_um", "deform", "image", "trace"}
scalar_feature_names == {"area_um", "deform"}
\* names a caller may ask for: the vocabulary and one name outside it
Names == feature_names \cup {"bogus"}

\* mutation of cache_queries: the size is not on the whitelist
cache_queries_nosize == {"metadata", "feature_list"}

\* APIHandler.cache_queries
cache_queries == {"metadata", "size", "feature_list"}
Queries == {"metadata", "size", "feature_list", "feature", "trace_list", "trace"}

\* ------------------------------------------------------------- remote side
\* The DCOR server is outside the repository.  It is modelled by the query
\* protocol: one immutable dataset (metadata, size, feature list, trace
\* list, per-event data), which answers a request it cannot serve (unknown
\* feature or channel, event index outside 0..size-1) with a non-success
\* response, and which may fail or send a malformed body for any request.
FeatureLists == { <<"image", "area_um", "trace", "bogus">>,
                  <<"deform", "area_um">> }
TraceLists == { <<"fl1_raw">> }
Metas == { [experiment |-> [sample |-> "S1", run_index |-> "2"]] }
Channels == {"fl1_raw", "fl2_raw"}
Reasons == {"FORBIDDEN"}

\* dataset sizes: the empty dataset and the largest one of the model
Sizes == {0, MaxSize}
Remotes == [size : Sizes, features : FeatureLists,
            traces : TraceLists, meta : Metas]

Elems(s) == {s[i] : i \in 1..Len(s)}

RemoteValid(rm, query, feat, trace, event) ==
  CASE query \in {"metadata", "size", "feature_list", "trace_list"} -> TRUE
    [] query = "feature" ->
         /\ feat # None /\ feat[1] \in Elems(rm.features) /\ feat[1] # "trace"
         /\ trace = None
         /\ IF event = None THEN feat[1] \in scalar_feature_names
                            ELSE event[1] \in 0..(rm.size - 1)
    [] query = "trace" ->
         /\ trace # None /\ trace[1] \in Elems(rm.traces)
         /\ feat = None
         /\ event # None /\ event[1] \in 0..(rm.size - 1)
    [] OTHER -> FALSE

\* the kind-appropriate payload held by the `result` field
RemoteResult(rm, query, feat, trace, event) ==
  CASE query = "metadata" -> <<"dict", rm.meta>>
    [] query = "size" -> <<"int", rm.size>>
    [] query = "feature_list" -> <<"list", rm.features>>
    [] query = "trace_list" -> <<"list", rm.traces>>
    [] query = "feature" /\ event = None -> <<"column", feat[1], rm.size>>
    [] query = "feature" /\ event # None -> <<"event", feat[1], event[1]>>
    [] query = "trace" -> <<"trace", trace[1], event[1]>>
    [] OTHER -> <<"null">>

\* requests.Response: ok flag, reason, decoded body
RespFail(r) == [ok |-> FALSE, reason |-> r, json |-> [error |-> r]]
RespOk(payload) == [ok |-> TRUE, reason |-> "OK", json |-> [result |-> payload]]
RespNoResult == [ok |-> TRUE, reason |-> "OK", json |-> [success |-> "false"]]

Responses(rm, query, feat, trace, event) ==
  {RespFail(r) : r \in Reasons} \cup
  (IF RemoteValid(rm, query, feat, trace, event)
     THEN {RespOk(RemoteResult(rm, query, feat, trace, event)), RespNoResult}
     ELSE {})

\* ------------------------------------------------------------- APIHandler
NoValue == <<"novalue">>
NoErr == "none"

\* lines 29-36: the query string appended to the resource URL
qstr(query, feat, trace, event) ==
  <<"&query=", query>>
    \o (IF feat # None THEN <<"&feature=", feat[1]>> ELSE <<>>)
    \o (IF trace # None THEN <<"&trace=", trace[1]>> ELSE <<>>)
    \o (IF event # None THEN <<"&event=", ToStr(event[1])>> ELSE <<>>)

\* what requests.get is handed, and what came back (status, reason, and the
\* keys of the body)
Call(url0, headers0, query, feat, trace, event, resp) ==
  [query |-> query, feat |-> feat, trace |-> trace, event |-> event,
   apicall |-> [url |-> url0, qstr |-> qstr(query, feat, trace, event)],
   headers |-> headers0, ok |-> resp.ok, reason |-> resp.reason,
   body |-> DOMAIN resp.json]

\* mutation of get: the cache is never consulted
get_nocache(url0, headers0, cache0, query, feat, trace, event, resp) ==
  LET call == Call(url0, headers0, query, feat, trace, event, resp)
  IN IF ~resp.ok
       THEN [cache |-> cache0, made |-> <<call>>, ret |-> NoValue,
             err |-> "ConnectionError",
             msg |-> <<"Error accessing", call.apicall, resp.reason>>]
     ELSE IF "result" \notin DOMAIN resp.json
       THEN [cache |-> cache0, made |-> <<call>>, ret |-> NoValue,
             err |-> "KeyError", msg |-> <<"result">>]
     ELSE
       [cache |-> IF query \in cache_queries
                    THEN (query :> resp.json.result) @@ cache0
                    ELSE cache0,
        made |-> <<call>>,
        ret |-> resp.json.result, err |-> NoErr, msg |-> <<>>]

\* mutation of get: a result is never stored
get_nostore(url0, headers0, cache0, query, feat, trace, event, resp) ==
  IF query \in cache_queries /\ query \in DOMAIN cache0
    THEN [cache |-> cache0, made |-> <<>>,
          ret |-> cache0[query], err |-> NoErr, msg |-> <<>>]
    ELSE
      LET call == Call(url0, headers0, query, feat, trace, event, resp)
      IN IF ~resp.ok
           THEN [cache |-> cache0, made |-> <<call>>, ret |-> NoValue,
                 err |-> "ConnectionError",
                 msg |-> <<"Error accessing", call.apicall, resp.reason>>]
         ELSE IF "result" \notin DOMAIN resp.json
           THEN [cache |-> cache0, made |-> <<call>>, ret |-> NoValue,
                 err |-> "KeyError", msg |-> <<"result">>]
         ELSE
           [cache |-> cache0, made |-> <<call>>,
            ret |-> resp.json.result, err |-> NoErr, msg |-> <<>>]

\* mutation of get: every query kind is cached, not only the whitelist
get_cacheall(url0, headers0, cache0, query, feat, trace, event, resp) ==
  IF query \in DOMAIN cache0
    THEN [cache |-> cache0, made |-> <<>>,
          ret |-> cache0[query], err |-> NoErr, msg |-> <<>>]
    ELSE
      LET call == Call(url0, headers0, query, feat, trace, event, resp)
      IN IF ~resp.ok
           THEN [cache |-> cache0, made |-> <<call>>, ret |-> NoValue,
                 err |-> "ConnectionError",
                 msg |-> <<"Error accessing", call.apicall, resp.reason>>]
         ELSE IF "result" \notin DOMAIN resp.json
           THEN [cache |-> cache0, made |-> <<call>>, ret |-> NoValue,
                 err |-> "KeyError", msg |-> <<"result">>]
         ELSE
           [cache |-> (query :> resp.json.result) @@ cache0,
            made |-> <<call>>,
            ret |-> resp.json.result, err |-> NoErr, msg |-> <<>>]

\* mutation of get: the response status is not checked before decoding
get_nocheck(url0, headers0, cache0, query, feat, trace, event, resp) ==
  IF query \in cache_queries /\ query \in DOMAIN cache0
    THEN [cache |-> cache0, made |-> <<>>,
          ret |-> cache0[query], err |-> NoErr, msg |-> <<>>]
    ELSE
      LET call == Call(url0, headers0, query, feat, trace, event, resp)
      IN IF "result" \notin DOMAIN resp.json
           THEN [cache |-> cache0, made |-> <<call>>, ret |-> NoValue,
                 err |-> "KeyError", msg |-> <<"result">>]
         ELSE
           [cache |-> IF query \in cache_queries
                        THEN (query :> resp.json.result) @@ cache0
                        ELSE cache0,
            made |-> <<call>>,
            ret |-> resp.json.result, err |-> NoErr, msg |-> <<>>]

\* mutation of get: a refused cacheable query leaves an empty entry behind
get_storefail(url0, headers0, cache0, query, feat, trace, event, resp) ==
  IF query \in cache_queries /\ query \in DOMAIN cache0
    THEN [cache |-> cache0, made |-> <<>>,
          ret |-> cache0[query], err |-> NoErr, msg |-> <<>>]
    ELSE
      LET call == Call(url0, headers0, query, feat, trace, event, resp)
      IN IF ~resp.ok
           THEN [cache |-> IF query \in cache_queries
                             THEN (query :> NoValue) @@ cache0
                             ELSE cache0,
                 made |-> <<call>>, ret |-> NoValue,
                 err |-> "ConnectionError",
                 msg |-> <<"Error accessing", call.apicall, resp.reason>>]
         ELSE IF "result" \notin DOMAIN resp.json
           THEN [cache |-> cache0, made |-> <<call>>, ret |-> NoValue,
                 err |-> "KeyError", msg |-> <<"result">>]
         ELSE
           [cache |-> IF query \in cache_queries
                        THEN (query :> resp.json.result) @@ cache0
                        ELSE cache0,
            made |-> <<call>>,
            ret |-> resp.json.result, err |-> NoErr, msg |-> <<>>]

\* APIHandler.get on the handler state (url0, headers0, cache0); resp is the
\* response the transport gives if it is asked.  made lists the transport
\* calls of this call of get.
get(url0, headers0, cache0, query, feat, trace, event, resp) ==
  IF query \in cache_queries /\ query \in DOMAIN cache0
    THEN [cache |-> cache0, made |-> <<>>,
          ret |-> cache0[query], err |-> NoErr, msg |-> <<>>]
    ELSE
      LET call == Call(url0, headers0, query, feat, trace, event, resp)
      IN IF ~resp.ok
           THEN [cache |-> cache0, made |-> <<call>>, ret |-> NoValue,
                 err |-> "ConnectionError",
                 msg |-> <<"Error accessing", call.apicall, resp.reason>>]
         ELSE IF "result" \notin DOMAIN resp.json
           THEN [cache |-> cache0, made |-> <<call>>, ret |-> NoValue,
                 err |-> "KeyError", msg |-> <<"result">>]
         ELSE
           [cache |-> IF query \in cache_queries
                        THEN (query :> resp.json.result) @@ cache0
                        ELSE cache0,
            made |-> <<call>>,
            ret |-> resp.json.result, err |-> NoErr, msg |-> <<>>]

\* the responses a call of get can meet: those of the remote side when the
\* transport is asked, a single unused one when the cache answers
NoResponse == RespFail("unused")
GetResponses(rm, cache0, query, feat, trace, event) ==
  IF query \in cache_queries /\ query \in DOMAIN cache0
    THEN {NoResponse}
    ELSE Responses(rm, query, feat, trace, event)

\* ------------------------------------------------------------------ state
VARIABLES
  remote,        \* the dataset held by the remote side
  phase,         \* "new" | "ready" | "failed" (RTDC_DCOR), "api" (bare handler)
  path,          \* RTDC_DCOR.path / APIHandler.url
  headers,       \* APIHandler.api_headers
  cache,         \* APIHandler._cache
  sent,          \* transport call counter: bag of the requests sent so far
  size,          \* RTDC_DCOR._size
  config,        \* RTDC_DCOR.config
  title,         \* RTDC_DCOR.title
  hash,          \* RTDC_DCOR._hash
  features,      \* FeatureCache._features
  scalar_cache,  \* FeatureCache._scalar_cache
  objs,          \* accessor objects handed out so far
  gen,           \* the generator of a running accessor iteration
  last,          \* the most recent call made by the user and its outcome
  first,         \* history: did the first call of a tracked operation return
  callers,       \* interleaved callers: where each one is in its call
  writes         \* history: bag of the cache entries the callers have stored

vars == <<remote, phase, path, headers, cache, sent, size, config, title,
          hash, features, scalar_cache, objs, gen, last, first, callers,
          writes>>

NoGen == <<>>
NoCache == <<>>
\* the callers of the interleaved model, and a caller that is not in a call
Callers == {1, 2}
Idle == [pc |-> "idle", op |-> "none", key |-> "", got |-> NoValue,
         ret |-> NoValue, err |-> NoErr]
NoFirst == <<>>

\* history of first calls: the operation op(key) is noted, with whether it
\* returned, the first time it is called
Note(f, op, key, returned) ==
  IF <<op, key>> \in DOMAIN f THEN f ELSE (<<op, key>> :> returned) @@ f
FirstReturned(op, key) == <<op, key>> \in DOMAIN first /\ first[<<op, key>>]

\* the request of a transport call, as counted by the call counter
Request(call) ==
  [query |-> call.query, feat |-> call.feat, trace |-> call.trace,
   event |-> call.event]

RECURSIVE Count(_, _)
\* the call counter after the calls of the sequence made
Count(bag, made) ==
  IF made = <<>> THEN bag
  ELSE Count(bag (+) SetToBag({Request(Head(made))}), Tail(made))

\* number of transport calls sent so far for one query kind
CallsOf(query) ==
  BagCardinality([rq \in {r \in DOMAIN sent : r.query = query} |-> sent[rq]])
\* number of transport calls sent so far
TotalCalls == BagCardinality(sent)

\* record of the most recent user-level call: the operation, its arguments,
\* what it returned or raised, and the transport calls it made, in order
Outcome(op, key, ev, ret, err, msg, made) ==
  [op |-> op, key |-> key, ev |-> ev, ret |-> ret, err |-> err,
   msg |-> msg, calls |-> made]

\* inputs of RTDC_DCOR.__init__ / APIHandler.__init__
DefaultHost == <<"h">>
Locators == { <<"X">>,
              <<"h", "/">> \o API_PREFIX \o <<"X">>,
              HTTP \o SEP \o <<"h", "/">> \o API_PREFIX \o <<"X">> }
ApiKeys == {""}

\* requests a direct caller of APIHandler.get makes in the model
ApiRequests ==
  {[query |-> q, feat |-> None, trace |-> None, event |-> None] :
      q \in {"metadata", "size", "feature_list", "trace_list"}}
  \cup {[query |-> "feature", feat |-> Some("area_um"), trace |-> None,
         event |-> None],
        [query |-> "feature", feat |-> Some("image"), trace |-> None,
         event |-> Some(0)],
        [query |-> "trace", feat |-> None, trace |-> Some("fl1_raw"),
         event |-> Some(0)],
        [query |-> "trace", feat |-> None, trace |-> Some("fl1_raw"),
         event |-> Some(MaxSize)]}
\* the direct calls made on the handler of a dataset object
DsRequests == {rq \in ApiRequests : rq.query \in cache_queries}

\* --------------------------------------------------- bare APIHandler
\* APIHandler.__init__ on its own (no dataset object around it)
InitApi ==
  /\ remote \in Remotes
  /\ phase = "api"
  /\ path \in {get_full_url(u, ssl, DefaultHost) :
                 u \in Locators, ssl \in BOOLEAN}
  /\ headers \in {[Authorization |-> k] : k \in ApiKeys}
  /\ cache = NoCache
  /\ sent = EmptyBag
  /\ size = 0 /\ config = <<>> /\ title = <<>> /\ hash = None
  /\ features = <<>> /\ scalar_cache = NoCache /\ objs = {} /\ gen = NoGen
  /\ last = Outcome("none", None, None, NoValue, NoErr, <<>>, <<>>)
  /\ first = NoFirst
  /\ callers = [c \in Callers |-> Idle]
  /\ writes = EmptyBag

\* a direct call of APIHandler.get
ApiGet(requests, bound) ==
  /\ phase \in {"api", "ready"}
  /\ \E rq \in requests :
       \E resp \in GetResponses(remote, cache, rq.query, rq.feat, rq.trace,
                                rq.event) :
         \E g \in {get(path, headers, cache,
                      rq.query, rq.feat, rq.trace, rq.event, resp)} :
            /\ TotalCalls + Len(g.made) <= bound
            /\ cache' = g.cache
            /\ sent' = Count(sent, g.made)
            /\ last' = Outcome("get", Some(rq.query), rq.event, g.ret, g.err,
                               g.msg, g.made)
            /\ first' = IF rq.query \in cache_queries
                          THEN Note(first, "get", rq.query, g.err = NoErr)
                          ELSE first
  /\ UNCHANGED <<callers, writes, remote, phase, path, headers, size, config, title, hash,
                 features, scalar_cache, objs, gen>>

NextApi == ApiGet(ApiRequests, MaxApiCalls)

SpecApi == InitApi /\ [][NextApi]_vars

\* ------------------------------------------------------------- RTDC_DCOR
Init ==
  /\ remote \in Remotes
  /\ phase = "new"
  /\ path = <<>> /\ headers = [Authorization |-> ""]
  /\ cache = NoCache
  /\ sent = EmptyBag
  /\ size = 0 /\ config = <<>> /\ title = <<>> /\ hash = None
  /\ features = <<>> /\ scalar_cache = NoCache /\ objs = {} /\ gen = NoGen
  /\ last = Outcome("none", None, None, NoValue, NoErr, <<>>, <<>>)
  /\ first = NoFirst
  /\ callers = [c \in Callers |-> Idle]
  /\ writes = EmptyBag

\* Configuration(cfg=...): nested lookup section -> key -> value
Configuration(cfg) == cfg[2]
\* int(...) of a decoded integer payload
int(payload) == payload[2]
\* np.asarray(data)
asarray(data) == <<"ndarray", data>>
\* "{} - M{}".format(sample, run index)
Title(cfg) == <<cfg.experiment.sample, " - M", cfg.experiment.run_index>>

\* the dataset objects of the model are built with the default use_ssl
DsSsl == {TRUE}

\* mutation of Fetch: the size is fetched before the metadata
Fetch_sizefirst(p, h, r1, r2, r3) ==
  LET g1 == get(p, h, NoCache, "size", None, None, None, r2)
      g2 == get(p, h, g1.cache, "metadata", None, None, None, r1)
      g3 == get(p, h, g2.cache, "feature_list", None, None, None, r3)
      ok1 == g1.err = NoErr
      ok2 == ok1 /\ g2.err = NoErr
      ok3 == ok2 /\ g3.err = NoErr
      gf == IF ~ok1 THEN g1 ELSE IF ~ok2 THEN g2 ELSE g3
  IN [cache |-> gf.cache,
      made |-> g1.made \o (IF ok1 THEN g2.made ELSE <<>>)
                       \o (IF ok2 THEN g3.made ELSE <<>>),
      rets |-> <<g2.ret, g1.ret, g3.ret>>,
      oks |-> <<ok2, ok1, ok3>>,
      err |-> gf.err, msg |-> gf.msg]

\* the API calls of RTDC_DCOR.__init__ on a fresh APIHandler(p, h): the
\* metadata, the size and (FeatureCache.__init__) the feature list, in this
\* order; the first failing call aborts the construction.
Fetch(p, h, r1, r2, r3) ==
  LET g1 == get(p, h, NoCache, "metadata", None, None, None, r1)
      g2 == get(p, h, g1.cache, "size", None, None, None, r2)
      g3 == get(p, h, g2.cache, "feature_list", None, None, None, r3)
      ok1 == g1.err = NoErr
      ok2 == ok1 /\ g2.err = NoErr
      ok3 == ok2 /\ g3.err = NoErr
      gf == IF ~ok1 THEN g1 ELSE IF ~ok2 THEN g2 ELSE g3
  IN [cache |-> gf.cache,
      made |-> g1.made \o (IF ok1 THEN g2.made ELSE <<>>)
                       \o (IF ok2 THEN g3.made ELSE <<>>),
      rets |-> <<g1.ret, g2.ret, g3.ret>>,
      oks |-> <<ok1, ok2, ok3>>,
      err |-> gf.err, msg |-> gf.msg]

\* RTDC_DCOR.__init__: resolve the URL, create the APIHandler, fetch, set
\* the title; the arguments are drawn from the given sets.
ConstructWith(locators, ssls, keys, hosts) ==
  /\ phase = "new"
  /\ \E url \in locators, use_ssl \in ssls, api_key \in keys, host \in hosts,
        r1 \in Responses(remote, "metadata", None, None, None),
        r2 \in Responses(remote, "size", None, None, None),
        r3 \in Responses(remote, "feature_list", None, None, None) :
       \E p \in {get_full_url(url, use_ssl, host)} :
       \E f \in {Fetch(p, [Authorization |-> api_key], r1, r2, r3)} :
       LET h == [Authorization |-> api_key]
       IN /\ path' = p
          /\ headers' = h
          /\ cache' = f.cache
          /\ sent' = Count(sent, f.made)
          /\ config' = IF f.oks[1] THEN Configuration(f.rets[1]) ELSE config
          /\ size' = IF f.oks[2] THEN int(f.rets[2]) ELSE size
          /\ features' = IF f.oks[3] THEN f.rets[3][2] ELSE features
          /\ title' = IF f.oks[3] THEN Title(Configuration(f.rets[1]))
                      ELSE title
          /\ phase' = IF f.oks[3] THEN "ready" ELSE "failed"
          /\ last' = Outcome("init",
                             Some([url |-> url, use_ssl |-> use_ssl,
                                   host |-> host, api_key |-> api_key]),
                             None,
                             IF f.oks[3] THEN <<"RTDC_DCOR">> ELSE NoValue,
                             f.err, f.msg, f.made)
          /\ first' = [k \in {<<"get", f.made[i].query>> :
                                 i \in 1..Len(f.made)} |->
                         \E i \in 1..Len(f.made) :
                            f.made[i].query = k[2] /\ f.oks[i]]
  /\ UNCHANGED <<callers, writes, remote, hash, scalar_cache, objs, gen>>

\* RTDC_DCOR(url) with the default use_ssl, host and api_key
Construct == ConstructWith(Locators, DsSsl, ApiKeys, {DefaultHost})

\* RTDC_DCOR.__len__
DsLen ==
  /\ phase = "ready"
  /\ last' = Outcome("len", None, None, <<"int", size>>, NoErr, <<>>, <<>>)
  /\ UNCHANGED <<callers, writes, remote, first, phase, path, headers, cache, sent, size, config,
                 title, hash, features, scalar_cache, objs, gen>>

\* reading the attributes config and title
ReadAttr ==
  /\ phase = "ready"
  /\ \E a \in {"config", "title"} :
       last' = Outcome("attr", Some(a), None,
                       IF a = "config" THEN <<"config", config>>
                                       ELSE <<"str", title>>,
                       NoErr, <<>>, <<>>)
  /\ UNCHANGED <<callers, writes, remote, first, phase, path, headers, cache, sent, size, config,
                 title, hash, features, scalar_cache, objs, gen>>

\* mutation of ReadHash: the title is hashed with the path
ReadHash_withtitle ==
  /\ phase = "ready"
  /\ hash' = IF hash = None THEN Some(hashobj(<<path, title>>)) ELSE hash
  /\ last' = Outcome("hash", None, None, hash'[1], NoErr, <<>>, <<>>)
  /\ UNCHANGED <<callers, writes, remote, first, phase, path, headers, cache, sent, size, config,
                 title, features, scalar_cache, objs, gen>>

\* RTDC_DCOR.hash
ReadHash ==
  /\ phase = "ready"
  /\ hash' = IF hash = None THEN Some(hashobj(<<path>>)) ELSE hash
  /\ last' = Outcome("hash", None, None, hash'[1], NoErr, <<>>, <<>>)
  /\ UNCHANGED <<callers, writes, remote, first, phase, path, headers, cache, sent, size, config,
                 title, features, scalar_cache, objs, gen>>

\* ----------------------------------------------------------- FeatureCache
\* mutation of contains: the download cache is asked, not the feature list
contains_cached(key) == key \in DOMAIN scalar_cache

\* FeatureCache.__contains__: key in self._features
contains(key) == key \in Elems(features)

\* key in dataset (FeatureCache.__contains__)
DirContains ==
  /\ phase = "ready"
  /\ \E key \in Names :
       last' = Outcome("dir_contains", Some(key), None,
                       <<"bool", contains(key)>>, NoErr, <<>>, <<>>)
  /\ UNCHANGED <<callers, writes, remote, first, phase, path, headers, cache, sent, size, config,
                 title, hash, features, scalar_cache, objs, gen>>

\* FeatureCache.keys / FeatureCache.__iter__
DirKeys ==
  /\ phase = "ready"
  /\ last' = Outcome("dir_keys", None, None, <<"list", features>>, NoErr,
                     <<>>, <<>>)
  /\ UNCHANGED <<callers, writes, remote, first, phase, path, headers, cache, sent, size, config,
                 title, hash, features, scalar_cache, objs, gen>>

\* the accessor objects
EventFeature(feature, url0) ==
  [cls |-> "EventFeature", name |-> feature, traces |-> <<>>,
   identifier |-> <<url0, ":", feature>>]
EventTrace(trace, url0) ==
  [cls |-> "EventTrace", name |-> trace, traces |-> <<>>,
   identifier |-> <<url0, ":", trace>>]
EventTraceFeature(traces, url0) ==
  [cls |-> "EventTraceFeature", name |-> "", traces |-> traces,
   identifier |-> <<url0, ":traces">>]

\* mutation of DirLookup: a downloaded scalar feature is not stored
DirLookup_nostore(key, resp) ==
  IF key \notin feature_names
    THEN [cache |-> cache, made |-> <<>>, scalar |-> scalar_cache,
          objs |-> objs, ret |-> NoValue, err |-> "AssertionError",
          msg |-> <<>>]
  ELSE IF key \notin Elems(features)
    THEN [cache |-> cache, made |-> <<>>, scalar |-> scalar_cache,
          objs |-> objs, ret |-> NoValue, err |-> "KeyError",
          msg |-> <<"Feature '{}' not found!", key>>]
  ELSE IF key \in DOMAIN scalar_cache
    THEN [cache |-> cache, made |-> <<>>, scalar |-> scalar_cache,
          objs |-> objs, ret |-> scalar_cache[key], err |-> NoErr,
          msg |-> <<>>]
  ELSE IF key \in scalar_feature_names
    THEN LET g == get(path, headers, cache, "feature", Some(key),
                      None, None, resp)
         IN [cache |-> g.cache, made |-> g.made,
             scalar |-> scalar_cache,
             objs |-> objs,
             ret |-> IF g.err = NoErr THEN asarray(g.ret) ELSE NoValue,
             err |-> g.err, msg |-> g.msg]
  ELSE IF key = "trace"
    THEN LET g == get(path, headers, cache, "trace_list", None,
                      None, None, resp)
             o == EventTraceFeature(g.ret[2], path)
         IN [cache |-> g.cache, made |-> g.made, scalar |-> scalar_cache,
             objs |-> IF g.err = NoErr THEN objs \cup {o} ELSE objs,
             ret |-> IF g.err = NoErr THEN <<"obj", o>> ELSE NoValue,
             err |-> g.err, msg |-> g.msg]
  ELSE LET o == EventFeature(key, path)
       IN [cache |-> cache, made |-> <<>>, scalar |-> scalar_cache,
           objs |-> objs \cup {o}, ret |-> <<"obj", o>>, err |-> NoErr,
           msg |-> <<>>]

\* mutation of DirLookup: the feature list is checked before the vocabulary
DirLookup_availfirst(key, resp) ==
  IF key \notin Elems(features)
    THEN [cache |-> cache, made |-> <<>>, scalar |-> scalar_cache,
          objs |-> objs, ret |-> NoValue, err |-> "KeyError",
          msg |-> <<"Feature '{}' not found!", key>>]
  ELSE IF key \notin feature_names
    THEN [cache |-> cache, made |-> <<>>, scalar |-> scalar_cache,
          objs |-> objs, ret |-> NoValue, err |-> "AssertionError",
          msg |-> <<>>]
  ELSE IF key \in DOMAIN scalar_cache
    THEN [cache |-> cache, made |-> <<>>, scalar |-> scalar_cache,
          objs |-> objs, ret |-> scalar_cache[key], err |-> NoErr,
          msg |-> <<>>]
  ELSE IF key \in scalar_feature_names
    THEN LET g == get(path, headers, cache, "feature", Some(key),
                      None, None, resp)
         IN [cache |-> g.cache, made |-> g.made,
             scalar |-> IF g.err = NoErr
                          THEN (key :> asarray(g.ret)) @@ scalar_cache
                          ELSE scalar_cache,
             objs |-> objs,
             ret |-> IF g.err = NoErr THEN asarray(g.ret) ELSE NoValue,
             err |-> g.err, msg |-> g.msg]
  ELSE IF key = "trace"
    THEN LET g == get(path, headers, cache, "trace_list", None,
                      None, None, resp)
             o == EventTraceFeature(g.ret[2], path)
         IN [cache |-> g.cache, made |-> g.made, scalar |-> scalar_cache,
             objs |-> IF g.err = NoErr THEN objs \cup {o} ELSE objs,
             ret |-> IF g.err = NoErr THEN <<"obj", o>> ELSE NoValue,
             err |-> g.err, msg |-> g.msg]
  ELSE LET o == EventFeature(key, path)
       IN [cache |-> cache, made |-> <<>>, scalar |-> scalar_cache,
           objs |-> objs \cup {o}, ret |-> <<"obj", o>>, err |-> NoErr,
           msg |-> <<>>]

\* mutation of DirLookup: the trace directory is built once and kept
DirLookup_tracecached(key, resp) ==
  IF key \notin feature_names
    THEN [cache |-> cache, made |-> <<>>, scalar |-> scalar_cache,
          objs |-> objs, ret |-> NoValue, err |-> "AssertionError",
          msg |-> <<>>]
  ELSE IF key \notin Elems(features)
    THEN [cache |-> cache, made |-> <<>>, scalar |-> scalar_cache,
          objs |-> objs, ret |-> NoValue, err |-> "KeyError",
          msg |-> <<"Feature '{}' not found!", key>>]
  ELSE IF key \in DOMAIN scalar_cache
    THEN [cache |-> cache, made |-> <<>>, scalar |-> scalar_cache,
          objs |-> objs, ret |-> scalar_cache[key], err |-> NoErr,
          msg |-> <<>>]
  ELSE IF key \in scalar_feature_names
    THEN LET g == get(path, headers, cache, "feature", Some(key),
                      None, None, resp)
         IN [cache |-> g.cache, made |-> g.made,
             scalar |-> IF g.err = NoErr
                          THEN (key :> asarray(g.ret)) @@ scalar_cache
                          ELSE scalar_cache,
             objs |-> objs,
             ret |-> IF g.err = NoErr THEN asarray(g.ret) ELSE NoValue,
             err |-> g.err, msg |-> g.msg]
  ELSE IF key = "trace" /\ \E o \in objs : o.cls = "EventTraceFeature"
    THEN [cache |-> cache, made |-> <<>>, scalar |-> scalar_cache,
          objs |-> objs,
          ret |-> <<"obj", CHOOSE o \in objs : o.cls = "EventTraceFeature">>,
          err |-> NoErr, msg |-> <<>>]
  ELSE IF key = "trace"
    THEN LET g == get(path, headers, cache, "trace_list", None,
                      None, None, resp)
             o == EventTraceFeature(g.ret[2], path)
         IN [cache |-> g.cache, made |-> g.made, scalar |-> scalar_cache,
             objs |-> IF g.err = NoErr THEN objs \cup {o} ELSE objs,
             ret |-> IF g.err = NoErr THEN <<"obj", o>> ELSE NoValue,
             err |-> g.err, msg |-> g.msg]
  ELSE LET o == EventFeature(key, path)
       IN [cache |-> cache, made |-> <<>>, scalar |-> scalar_cache,
           objs |-> objs \cup {o}, ret |-> <<"obj", o>>, err |-> NoErr,
           msg |-> <<>>]

\* mutation of DirLookup: an event-wise accessor is kept in the scalar cache
DirLookup_cacheobj(key, resp) ==
  IF key \notin feature_names
    THEN [cache |-> cache, made |-> <<>>, scalar |-> scalar_cache,
          objs |-> objs, ret |-> NoValue, err |-> "AssertionError",
          msg |-> <<>>]
  ELSE IF key \notin Elems(features)
    THEN [cache |-> cache, made |-> <<>>, scalar |-> scalar_cache,
          objs |-> objs, ret |-> NoValue, err |-> "KeyError",
          msg |-> <<"Feature '{}' not found!", key>>]
  ELSE IF key \in DOMAIN scalar_cache
    THEN [cache |-> cache, made |-> <<>>, scalar |-> scalar_cache,
          objs |-> objs, ret |-> scalar_cache[key], err |-> NoErr,
          msg |-> <<>>]
  ELSE IF key \in scalar_feature_names
    THEN LET g == get(path, headers, cache, "feature", Some(key),
                      None, None, resp)
         IN [cache |-> g.cache, made |-> g.made,
             scalar |-> IF g.err = NoErr
                          THEN (key :> asarray(g.ret)) @@ scalar_cache
                          ELSE scalar_cache,
             objs |-> objs,
             ret |-> IF g.err = NoErr THEN asarray(g.ret) ELSE NoValue,
             err |-> g.err, msg |-> g.msg]
  ELSE IF key = "trace"
    THEN LET g == get(path, headers, cache, "trace_list", None,
                      None, None, resp)
             o == EventTraceFeature(g.ret[2], path)
         IN [cache |-> g.cache, made |-> g.made, scalar |-> scalar_cache,
             objs |-> IF g.err = NoErr THEN objs \cup {o} ELSE objs,
             ret |-> IF g.err = NoErr THEN <<"obj", o>> ELSE NoValue,
             err |-> g.err, msg |-> g.msg]
  ELSE LET o == EventFeature(key, path)
       IN [cache |-> cache, made |-> <<>>,
           scalar |-> (key :> <<"obj", o>>) @@ scalar_cache,
           objs |-> objs \cup {o}, ret |-> <<"obj", o>>, err |-> NoErr,
           msg |-> <<>>]

\* FeatureCache.__getitem__ as a function of the directory state; resp is
\* the response the transport gives if it is asked.
DirLookup(key, resp) ==
  IF key \notin feature_names
    THEN [cache |-> cache, made |-> <<>>, scalar |-> scalar_cache,
          objs |-> objs, ret |-> NoValue, err |-> "AssertionError",
          msg |-> <<>>]
  ELSE IF key \notin Elems(features)
    THEN [cache |-> cache, made |-> <<>>, scalar |-> scalar_cache,
          objs |-> objs, ret |-> NoValue, err |-> "KeyError",
          msg |-> <<"Feature '{}' not found!", key>>]
  ELSE IF key \in DOMAIN scalar_cache
    THEN [cache |-> cache, made |-> <<>>, scalar |-> scalar_cache,
          objs |-> objs, ret |-> scalar_cache[key], err |-> NoErr,
          msg |-> <<>>]
  ELSE IF key \in scalar_feature_names
    THEN LET g == get(path, headers, cache, "feature", Some(key),
                      None, None, resp)
         IN [cache |-> g.cache, made |-> g.made,
             scalar |-> IF g.err = NoErr
                          THEN (key :> asarray(g.ret)) @@ scalar_cache
                          ELSE scalar_cache,
             objs |-> objs,
             ret |-> IF g.err = NoErr THEN asarray(g.ret) ELSE NoValue,
             err |-> g.err, msg |-> g.msg]
  ELSE IF key = "trace"
    THEN LET g == get(path, headers, cache, "trace_list", None,
                      None, None, resp)
             o == EventTraceFeature(g.ret[2], path)
         IN [cache |-> g.cache, made |-> g.made, scalar |-> scalar_cache,
             objs |-> IF g.err = NoErr THEN objs \cup {o} ELSE objs,
             ret |-> IF g.err = NoErr THEN <<"obj", o>> ELSE NoValue,
             err |-> g.err, msg |-> g.msg]
  ELSE LET o == EventFeature(key, path)
       IN [cache |-> cache, made |-> <<>>, scalar |-> scalar_cache,
           objs |-> objs \cup {o}, ret |-> <<"obj", o>>, err |-> NoErr,
           msg |-> <<>>]

\* the request FeatureCache.__getitem__ hands to the API for a key
DirRequest(key) ==
  IF key = "trace"
    THEN [query |-> "trace_list", feat |-> None]
    ELSE [query |-> "feature", feat |-> Some(key)]

\* the responses a lookup of key can meet (it asks the API only for an
\* available scalar feature that is not stored yet, and for "trace")
DirResponses(key) ==
  IF /\ key \in feature_names /\ key \in Elems(features)
     /\ key \notin DOMAIN scalar_cache
     /\ (key \in scalar_feature_names \/ key = "trace")
    THEN GetResponses(remote, cache, DirRequest(key).query,
                      DirRequest(key).feat, None, None)
    ELSE {NoResponse}

DirGetItem ==
  /\ phase = "ready"
  /\ \E key \in Names :
       \E resp \in DirResponses(key) :
         \E d \in {DirLookup(key, resp)} :
            /\ TotalCalls + Len(d.made) <= MaxCalls
            /\ cache' = d.cache
            /\ sent' = Count(sent, d.made)
            /\ scalar_cache' = d.scalar
            /\ objs' = d.objs
            /\ last' = Outcome("dir_getitem", Some(key), None, d.ret, d.err,
                               d.msg, d.made)
            /\ first' = IF key \in scalar_feature_names \cup {"trace"}
                             /\ key \in Elems(features)
                          THEN Note(first, "dir_getitem", key, d.err = NoErr)
                          ELSE first
  /\ UNCHANGED <<callers, writes, remote, phase, path, headers, size, config, title, hash,
                 features, gen>>

\* ------------------------------------------- EventFeature / EventTrace
IsAccessor(o) == o.cls \in {"EventFeature", "EventTrace"}

\* the per-event request of an accessor's __getitem__
AccRequest(o) ==
  IF o.cls = "EventFeature"
    THEN [query |-> "feature", feat |-> Some(o.name), trace |-> None]
    ELSE [query |-> "trace", feat |-> None, trace |-> Some(o.name)]

\* mutation of EventGetItem: the event index is not passed on
EventGetItem_noevent(o, cache0, event, resp) ==
  LET rq == AccRequest(o)
      g == get(path, headers, cache0, rq.query, rq.feat, rq.trace,
               None, resp)
  IN [cache |-> g.cache, made |-> g.made,
      ret |-> IF g.err = NoErr THEN asarray(g.ret) ELSE NoValue,
      err |-> g.err, msg |-> g.msg]

\* EventFeature.__getitem__ / EventTrace.__getitem__ from the cache cache0
EventGetItem(o, cache0, event, resp) ==
  LET rq == AccRequest(o)
      g == get(path, headers, cache0, rq.query, rq.feat, rq.trace,
               Some(event), resp)
  IN [cache |-> g.cache, made |-> g.made,
      ret |-> IF g.err = NoErr THEN asarray(g.ret) ELSE NoValue,
      err |-> g.err, msg |-> g.msg]

\* mutation of EventLen: the length is off by one
EventLen_plus1(cache0, resp) ==
  LET g == get(path, headers, cache0, "size", None, None, None, resp)
  IN [cache |-> g.cache, made |-> g.made,
      ret |-> IF g.err = NoErr THEN <<"int", int(g.ret) + 1>> ELSE NoValue,
      err |-> g.err, msg |-> g.msg]

\* EventFeature.__len__ / EventTrace.__len__
EventLen(cache0, resp) ==
  LET g == get(path, headers, cache0, "size", None, None, None, resp)
  IN [cache |-> g.cache, made |-> g.made,
      ret |-> IF g.err = NoErr THEN <<"int", int(g.ret)>> ELSE NoValue,
      err |-> g.err, msg |-> g.msg]

\* accessor[event]
AccAt ==
  /\ phase = "ready"
  /\ \E o \in {a \in objs : IsAccessor(a)}, ev \in 0..MaxSize :
       \E resp \in GetResponses(remote, cache, AccRequest(o).query,
                                AccRequest(o).feat, AccRequest(o).trace,
                                Some(ev)) :
         \E g \in {EventGetItem(o, cache, ev, resp)} :
            /\ TotalCalls + Len(g.made) <= MaxCalls
            /\ cache' = g.cache
            /\ sent' = Count(sent, g.made)
            /\ last' = Outcome("at", Some(o.name), Some(ev), g.ret, g.err,
                               g.msg, g.made)
  /\ UNCHANGED <<callers, writes, remote, first, phase, path, headers, size, config, title, hash,
                 features, scalar_cache, objs, gen>>

\* len(accessor)
AccLen ==
  /\ phase = "ready"
  /\ \E o \in {a \in objs : IsAccessor(a)} :
       \E resp \in GetResponses(remote, cache, "size", None, None, None) :
         \E g \in {EventLen(cache, resp)} :
            /\ TotalCalls + Len(g.made) <= MaxCalls
            /\ cache' = g.cache
            /\ sent' = Count(sent, g.made)
            /\ last' = Outcome("acc_len", Some(o.name), None, g.ret, g.err,
                               g.msg, g.made)
  /\ UNCHANGED <<callers, writes, remote, first, phase, path, headers, size, config, title, hash,
                 features, scalar_cache, objs, gen>>

\* iter(accessor): a generator whose body has not started yet
IterNew ==
  /\ phase = "ready"
  /\ \E o \in {a \in objs : IsAccessor(a)} :
       /\ gen' = Some([obj |-> o, state |-> "created", n |-> 0, idx |-> 0,
                       yielded |-> <<>>])
       /\ last' = Outcome("iter", Some(o.name), None, <<"generator">>, NoErr,
                          <<>>, <<>>)
  /\ UNCHANGED <<callers, writes, remote, first, phase, path, headers, cache, sent, size, config,
                 title, hash, features, scalar_cache, objs>>

\* next(generator): EventFeature.__iter__ / EventTrace.__iter__.  The first
\* step evaluates range(len(self)); every step yields self[idx] or stops.
GenNext ==
  /\ phase = "ready"
  /\ gen # NoGen
  /\ gen[1].state \in {"created", "running"}
  /\ LET it == gen[1]
     IN \E r0 \in (IF it.state = "created"
                     THEN GetResponses(remote, cache, "size", None, None, None)
                     ELSE {NoResponse}),
           r1 \in GetResponses(remote, cache, AccRequest(it.obj).query,
                               AccRequest(it.obj).feat,
                               AccRequest(it.obj).trace, Some(it.idx)) :
          \E g0 \in {IF it.state = "created"
                       THEN EventLen(cache, r0)
                       ELSE [cache |-> cache, made |-> <<>>,
                             ret |-> <<"int", it.n>>, err |-> NoErr,
                             msg |-> <<>>]} :
          \E g1 \in {EventGetItem(it.obj, g0.cache, it.idx, r1)} :
          LET stop == g0.err = NoErr /\ it.idx >= int(g0.ret)
              gf == IF g0.err # NoErr \/ stop THEN g0 ELSE g1
              made == IF g0.err # NoErr \/ stop THEN g0.made
                                                ELSE g0.made \o g1.made
          IN /\ TotalCalls + Len(made) <= MaxCalls
             /\ cache' = gf.cache
             /\ sent' = Count(sent, made)
             /\ gen' = Some(
                  IF gf.err # NoErr THEN [it EXCEPT !.state = "raised"]
                  ELSE IF stop
                    THEN [it EXCEPT !.state = "done", !.n = int(g0.ret)]
                  ELSE [it EXCEPT !.state = "running", !.n = int(g0.ret),
                                  !.idx = it.idx + 1,
                                  !.yielded = Append(it.yielded, g1.ret)])
             /\ last' = Outcome("next", Some(it.obj.name), Some(it.idx),
                                IF stop \/ gf.err # NoErr THEN NoValue
                                                          ELSE g1.ret,
                                IF stop THEN "StopIteration" ELSE gf.err,
                                gf.msg, made)
  /\ UNCHANGED <<callers, writes, remote, first, phase, path, headers, size, config, title, hash,
                 features, scalar_cache, objs>>

\* ------------------------------------------------------ EventTraceFeature
\* EventTraceFeature.__contains__
TraceDirContains ==
  /\ phase = "ready"
  /\ \E o \in {a \in objs : a.cls = "EventTraceFeature"}, ch \in Channels :
       last' = Outcome("tdir_contains", Some(ch), None,
                       <<"bool", ch \in Elems(o.traces)>>, NoErr, <<>>, <<>>)
  /\ UNCHANGED <<callers, writes, remote, first, phase, path, headers, cache, sent, size, config,
                 title, hash, features, scalar_cache, objs, gen>>

\* EventTraceFeature.keys
TraceDirKeys ==
  /\ phase = "ready"
  /\ \E o \in {a \in objs : a.cls = "EventTraceFeature"} :
       last' = Outcome("tdir_keys", None, None, <<"list", o.traces>>, NoErr,
                       <<>>, <<>>)
  /\ UNCHANGED <<callers, writes, remote, first, phase, path, headers, cache, sent, size, config,
                 title, hash, features, scalar_cache, objs, gen>>

\* EventTraceFeature.__getitem__: an EventTrace for a listed channel; for
\* any other name the method falls off its end and returns None
TraceDirGetItem ==
  /\ phase = "ready"
  /\ \E o \in {a \in objs : a.cls = "EventTraceFeature"}, ch \in Channels :
       IF ch \in Elems(o.traces)
         THEN /\ objs' = objs \cup {EventTrace(ch, path)}
              /\ last' = Outcome("tdir_getitem", Some(ch), None,
                                 <<"obj", EventTrace(ch, path)>>, NoErr, <<>>,
                                 <<>>)
         ELSE /\ objs' = objs
              /\ last' = Outcome("tdir_getitem", Some(ch), None, <<"None">>,
                                 NoErr, <<>>, <<>>)
  /\ UNCHANGED <<callers, writes, remote, first, phase, path, headers, cache, sent, size, config,
                 title, hash, features, scalar_cache, gen>>

\* ---------------------------------------------------------- specification
Next ==
  \/ Construct
  \/ DsLen
  \/ ReadAttr
  \/ ReadHash
  \/ DirContains
  \/ DirKeys
  \/ DirGetItem
  \/ AccAt
  \/ AccLen
  \/ IterNew
  \/ GenNext
  \/ TraceDirContains
  \/ TraceDirKeys
  \/ TraceDirGetItem
  \/ ApiGet(DsRequests, MaxCalls)

Spec == Init /\ [][Next]_vars

\* ------------------------------------------- locators and identity
\* The dataset object built from any locator, SSL flag, default host and
\* API key, and then read without further transport calls.
Ids == {"abc123", "X"}
Hosts == {<<"example.org">>, <<"h">>}
Schemes == {HTTP, HTTPS}
AllKeys == {"", "secret"}
\* the three shorthand forms of the resource id on host h
Bare(id) == <<id>>
HostRelative(h, id) == h \o SLASH \o API_PREFIX \o <<id>>
FullUrl(scheme, h, id) == scheme \o SEP \o HostRelative(h, id)
WellFormed ==
  {Bare(id) : id \in Ids}
  \cup {HostRelative(h, id) : h \in Hosts, id \in Ids}
  \cup {FullUrl(sc, h, id) : sc \in Schemes, h \in Hosts, id \in Ids}
\* locators without an identifier: the empty string, scheme://host
Malformed == {<<>>} \cup {sc \o SEP \o h : sc \in Schemes, h \in Hosts}
AllLocators == WellFormed \cup Malformed

NextId ==
  \/ ConstructWith(AllLocators, BOOLEAN, AllKeys, Hosts)
  \/ ReadHash
  \/ DsLen
  \/ ReadAttr
  \/ DirContains
  \/ DirKeys
  \/ ApiGet(DsRequests, MaxCalls)

SpecId == Init /\ [][NextId]_vars

\* ------------------------------------------------- failures and repeats
\* A bare APIHandler called directly, or a dataset object whose directory
\* is asked for features and whose handler is called directly.
InitRetry == InitApi \/ Init

NextRetry ==
  \/ ApiGet(ApiRequests, MaxApiCalls)
  \/ Construct
  \/ DirGetItem

SpecRetry == InitRetry /\ [][NextRetry]_vars

\* ---------------------------------------------------- interleaved callers
\* Two callers use one dataset object at the same time.  A call of
\* APIHandler.get, or of FeatureCache.__getitem__ for a scalar feature, is
\* three steps: the look into the cache, the transport call with the check
\* of the response, the store.  Steps of different callers interleave.
ConcRequests ==
  {[op |-> "get", key |-> k] : k \in cache_queries}
  \cup {[op |-> "lookup", key |-> f] : f \in scalar_feature_names}

\* a caller enters a call
CallerBegin(c) ==
  /\ phase = "ready"
  /\ callers[c].pc \in {"idle", "done"}
  /\ \E rq \in ConcRequests :
       callers' = [callers EXCEPT ![c] =
                     [Idle EXCEPT !.pc = "check", !.op = rq.op,
                                  !.key = rq.key]]
  /\ UNCHANGED <<writes, remote, phase, path, headers, cache, sent, size,
                 config, title, hash, features, scalar_cache, objs, gen, last,
                 first>>

\* get line 26 / __getitem__ lines 119-123: a stored value is returned,
\* an absent feature is a KeyError, anything else goes to the transport
CallerCheck(c) ==
  /\ callers[c].pc = "check"
  /\ LET me == callers[c]
         hit == IF me.op = "get"
                  THEN me.key \in cache_queries /\ me.key \in DOMAIN cache
                  ELSE me.key \in Elems(features)
                       /\ me.key \in DOMAIN scalar_cache
         absent == me.op = "lookup" /\ me.key \notin Elems(features)
     IN callers' = [callers EXCEPT ![c] =
          IF absent THEN [me EXCEPT !.pc = "done", !.err = "KeyError"]
          ELSE IF hit
            THEN [me EXCEPT !.pc = "done",
                            !.ret = IF me.op = "get" THEN cache[me.key]
                                    ELSE scalar_cache[me.key]]
          ELSE [me EXCEPT !.pc = "call"]]
  /\ UNCHANGED <<writes, remote, phase, path, headers, cache, sent, size,
                 config, title, hash, features, scalar_cache, objs, gen, last,
                 first>>

\* get lines 29-41: the transport call and the check of its response (for
\* a lookup, inside api.get(query="feature", feat=key) and np.asarray)
CallerCall(c) ==
  /\ callers[c].pc = "call"
  /\ TotalCalls < MaxCalls
  /\ LET me == callers[c]
         query == IF me.op = "get" THEN me.key ELSE "feature"
         feat == IF me.op = "get" THEN None ELSE Some(me.key)
     IN \E resp \in Responses(remote, query, feat, None, None) :
        \E g \in {get(path, headers, NoCache, query, feat, None, None,
                      resp)} :
          /\ sent' = Count(sent, g.made)
          /\ callers' = [callers EXCEPT ![c] =
               IF g.err # NoErr
                 THEN [me EXCEPT !.pc = "done", !.err = g.err]
                 ELSE [me EXCEPT !.pc = "store",
                                 !.got = IF me.op = "get" THEN g.ret
                                         ELSE asarray(g.ret)]]
  /\ UNCHANGED <<writes, remote, phase, path, headers, cache, size, config,
                 title, hash, features, scalar_cache, objs, gen, last, first>>

\* get lines 42-44 / __getitem__ lines 128-129: the store and the return
CallerStore(c) ==
  /\ callers[c].pc = "store"
  /\ LET me == callers[c]
     IN /\ cache' = IF me.op = "get" /\ me.key \in cache_queries
                      THEN (me.key :> me.got) @@ cache ELSE cache
        /\ scalar_cache' = IF me.op = "lookup"
                             THEN (me.key :> me.got) @@ scalar_cache
                             ELSE scalar_cache
        /\ writes' = writes (+) SetToBag({<<me.op, me.key>>})
        /\ callers' = [callers EXCEPT ![c] =
                         [me EXCEPT !.pc = "done", !.ret = me.got]]
  /\ UNCHANGED <<remote, phase, path, headers, sent, size, config, title,
                 hash, features, objs, gen, last, first>>

NextConc ==
  \/ Construct
  \/ \E c \in Callers : CallerBegin(c)
  \/ \E c \in Callers : CallerCheck(c)
  \/ \E c \in Callers : CallerCall(c)
  \/ \E c \in Callers : CallerStore(c)

SpecConc == Init /\ [][NextConc]_vars

\* ------------------------------------------------------------ properties
\* The transport answers a given request of one dataset with one payload.
Answer(query) == RemoteResult(remote, query, None, None, None)

\* C1: on a bare APIHandler, for every cacheable query kind: once the first
\* get of that kind has returned, the transport call counter of the kind is
\* exactly 1 and stays 1, and every later get of the kind returns, without
\* error, the result the first one returned.
C1_CacheWriteOnce ==
  \A k \in cache_queries :
    FirstReturned("get", k) =>
      /\ CallsOf(k) = 1
      /\ (last.op = "get" /\ last.key = Some(k)) =>
           (last.err = NoErr /\ last.ret = Answer(k))

\* C1 witness: a later get of a kind that has already returned, answered
\* without a transport call
C1_Witness ==
  \E k \in cache_queries :
    /\ FirstReturned("get", k)
    /\ last.op = "get" /\ last.key = Some(k)
    /\ last.calls = <<>> /\ last.ret = Answer(k)

\* C2: in every state of a dataset object, construction included and
\* whatever the transport answered, at most one transport call has been
\* sent for each cacheable query kind.
C2_AtMostOneCall ==
  \A k \in cache_queries : CallsOf(k) <= 1

\* C2 witness: an accessor iteration ran to its end after len(accessor) and
\* the three kinds still stand at one call each
C2_Witness ==
  /\ phase = "ready"
  /\ last.op = "next" /\ last.err = "StopIteration"
  /\ \A k \in cache_queries : CallsOf(k) = 1

\* C3: a get of a kind outside the whitelist is always forwarded, as one
\* transport call carrying its query kind and event, and the cache never
\* holds an entry for such a kind.
C3_NeverCached ==
  /\ DOMAIN cache \subseteq cache_queries
  /\ (last.op = "get" /\ last.key[1] \notin cache_queries) =>
       /\ Len(last.calls) = 1
       /\ last.calls[1].query = last.key[1]
       /\ last.calls[1].event = last.ev

\* C3 witness: the same request of a non-cacheable kind sent twice, the
\* second time by the get that has just returned
C3_Witness ==
  \E rq \in DOMAIN sent :
    /\ rq.query \notin cache_queries
    /\ sent[rq] >= 2
    /\ last.op = "get" /\ last.key = Some(rq.query) /\ last.ev = rq.event
    /\ last.err = NoErr

\* the features of the dataset, as the remote side lists them
Available == Elems(remote.features)
\* the requests sent so far that name the feature f
SentFor(f) == {rq \in DOMAIN sent : rq.feat = Some(f)}
WholeColumn(f) ==
  [query |-> "feature", feat |-> Some(f), trace |-> None, event |-> None]

\* C4: for every scalar feature of the vocabulary that the dataset has: once
\* its first lookup in the directory has returned, exactly one transport
\* call has been sent for it, the whole-column feature query (feature name,
\* no event), and every later lookup returns the array of that column.
C4_ScalarOnce ==
  \A f \in scalar_feature_names \cap Available :
    FirstReturned("dir_getitem", f) =>
      /\ SentFor(f) = {WholeColumn(f)}
      /\ sent[WholeColumn(f)] = 1
      /\ (last.op = "dir_getitem" /\ last.key = Some(f)) =>
           /\ last.err = NoErr
           /\ last.ret = asarray(RemoteResult(remote, "feature", Some(f),
                                              None, None))

\* C4 witness: a second lookup of a scalar feature, served without a call
C4_Witness ==
  \E f \in scalar_feature_names \cap Available :
    /\ FirstReturned("dir_getitem", f)
    /\ last.op = "dir_getitem" /\ last.key = Some(f)
    /\ last.calls = <<>> /\ last.err = NoErr
    /\ sent[WholeColumn(f)] = 1

\* the features served event by event
PerEvent == (feature_names \ (scalar_feature_names \cup {"trace"})) \cap Available

\* C5: for every available non-scalar, non-trace feature: its lookup sends
\* no transport call and returns an EventFeature accessor; every at(i) on
\* the accessor sends exactly one call, a feature query for that name with
\* event=i; no whole-column query is ever sent for it and it never enters
\* the scalar cache.
C5_PerEventLazy ==
  \A f \in PerEvent :
    /\ (phase = "ready" /\ last.op = "dir_getitem" /\ last.key = Some(f)) =>
         /\ last.calls = <<>> /\ last.err = NoErr
         /\ last.ret = <<"obj", EventFeature(f, path)>>
    /\ (last.op = "at" /\ last.key = Some(f)) =>
         /\ Len(last.calls) = 1
         /\ Request(last.calls[1]) =
              [query |-> "feature", feat |-> Some(f), trace |-> None,
               event |-> last.ev]
    /\ WholeColumn(f) \notin DOMAIN sent
    /\ f \notin DOMAIN scalar_cache

\* C5 witness: at(i) and at(j), i # j, have sent two calls, one with each
\* event index, and nothing else for the feature
C5_Witness ==
  \E f \in PerEvent : \E i, j \in 0..MaxSize :
    /\ i # j
    /\ last.op = "at" /\ last.key = Some(f) /\ last.ev = Some(j)
    /\ SentFor(f) = {[query |-> "feature", feat |-> Some(f), trace |-> None,
                      event |-> Some(e)] : e \in {i, j}}
    /\ \A rq \in SentFor(f) : sent[rq] = 1

\* C6: a membership test of the directory sends no transport call, leaves
\* the query cache and the scalar cache as they are, and answers whether the
\* name is in the feature list of the dataset.
C6_ContainsPure ==
  [][last'.op = "dir_contains" =>
       /\ sent' = sent /\ cache' = cache /\ scalar_cache' = scalar_cache
       /\ last'.calls = <<>> /\ last'.err = NoErr
       /\ last'.ret = <<"bool", last'.key[1] \in Available>>]_vars

\* C6 witness: the test says yes for a scalar feature that has not been
\* downloaded, and nothing has been sent since the construction
C6_Witness ==
  /\ last.op = "dir_contains" /\ last.ret = <<"bool", TRUE>>
  /\ last.key[1] \in scalar_feature_names
  /\ scalar_cache = NoCache /\ TotalCalls = 3

\* C7: a lookup of a name outside the vocabulary raises AssertionError
\* (UnknownFeatureError), a lookup of a name of the vocabulary that the
\* dataset does not have raises KeyError (FeatureNotFoundError); the
\* vocabulary is checked first, and neither lookup sends a transport call
\* or changes the caches or the accessors.
C7_UnknownVsAbsent ==
  [][(last'.op = "dir_getitem" /\ last'.key[1] \notin feature_names
                                      \cap Available) =>
       /\ last'.err = IF last'.key[1] \notin feature_names
                        THEN "AssertionError" ELSE "KeyError"
       /\ last'.ret = NoValue /\ last'.calls = <<>>
       /\ sent' = sent /\ cache' = cache /\ scalar_cache' = scalar_cache
       /\ objs' = objs]_vars

\* C7 witness: a name outside the vocabulary and outside the feature list
\* is reported as unknown
C7_Witness ==
  /\ last.op = "dir_getitem" /\ last.err = "AssertionError"
  /\ last.key[1] \notin Available

\* C8: an accessor iteration that has run to its end has yielded exactly
\* size elements, the data of the events 0, 1, ..., size-1 in this order;
\* at(size) raises ConnectionError (RemoteAccessError) and returns nothing;
\* len(accessor) is the length of the dataset object.
C8_LengthConsistency ==
  /\ (gen # NoGen /\ gen[1].state = "done") =>
       /\ Len(gen[1].yielded) = remote.size
       /\ \A i \in 1..Len(gen[1].yielded) :
            gen[1].yielded[i] =
              asarray(RemoteResult(remote, AccRequest(gen[1].obj).query,
                                   AccRequest(gen[1].obj).feat,
                                   AccRequest(gen[1].obj).trace, Some(i - 1)))
  /\ (last.op = "at" /\ last.ev = Some(remote.size)) =>
       (last.err = "ConnectionError" /\ last.ret = NoValue)
  /\ last.op = "acc_len" =>
       (last.err = NoErr /\ last.ret = <<"int", size>> /\ size = remote.size)
  /\ last.op = "len" => last.ret = <<"int", remote.size>>

\* C8 witness: the iteration of a dataset that has events has run to its end
C8_Witness ==
  /\ gen # NoGen /\ gen[1].state = "done"
  /\ Len(gen[1].yielded) = MaxSize /\ MaxSize >= 2
  /\ last.op = "next" /\ last.err = "StopIteration"

Kinds(made) == [i \in 1..Len(made) |-> made[i].query]

\* C9: a construction that succeeds has sent exactly three transport calls,
\* metadata, size, feature_list in this order; from then on reading the
\* length, the configuration, the title, the hash, directory membership and
\* the directory keys sends no call, and the three kinds stay at one call.
C9_EagerFetch ==
  /\ (last.op = "init" /\ last.err = NoErr) =>
       /\ Kinds(last.calls) = <<"metadata", "size", "feature_list">>
       /\ TotalCalls = 3 /\ phase = "ready"
  /\ phase = "ready" =>
       /\ \A k \in cache_queries : CallsOf(k) = 1
       /\ last.op \in {"len", "attr", "hash", "dir_contains", "dir_keys"} =>
            (last.calls = <<>> /\ last.err = NoErr)
       /\ last.op = "len" => last.ret = <<"int", int(Answer("size"))>>
       /\ last.op = "dir_keys" => last.ret = Answer("feature_list")

\* C9 witness: the hash has been read after the construction and the
\* counter still stands at the three calls of the construction
C9_Witness ==
  /\ phase = "ready" /\ last.op = "hash" /\ hash # None
  /\ TotalCalls = 3

\* C10: a transport call with a non-success response ends the operation
\* that made it: the operation raises ConnectionError (RemoteAccessError)
\* with the request target and the reason of the response, and returns
\* nothing.
C10_RemoteAccessError ==
  \A i \in 1..Len(last.calls) :
    ~last.calls[i].ok =>
      /\ i = Len(last.calls)
      /\ last.err = "ConnectionError"
      /\ last.ret = NoValue
      /\ last.msg = <<"Error accessing", last.calls[i].apicall,
                      last.calls[i].reason>>

\* C10 witness: an accessor's at(event) met a non-success response
C10_Witness ==
  /\ last.op = "at" /\ Len(last.calls) = 1 /\ ~last.calls[1].ok
  /\ last.err = "ConnectionError"

\* C11: a transport call that is answered with a success status and a body
\* without the key "result" makes get raise ConnectionError
\* (RemoteAccessError), as a non-success response does, and the query cache
\* gets no entry for the query.
C11_MissingResultIsRemoteAccessError ==
  \A i \in 1..Len(last.calls) :
    (last.calls[i].ok /\ "result" \notin last.calls[i].body) =>
      /\ last.err = "ConnectionError"
      /\ last.calls[i].query \notin DOMAIN cache

\* the endpoint of the resource id on host h
Endpoint(use_ssl, h, id) ==
  (IF use_ssl THEN <<"https">> ELSE <<"http">>)
    \o <<"://">> \o h \o <<"/", "api/3/action/dcserv?id=", id>>

\* C12: the endpoint a dataset object is built with is determined by the
\* locator, the SSL flag and the default host: the bare identifier resolves
\* to the endpoint of that id on the default host, the host-relative path
\* and the full URL (whatever its scheme) to the endpoint of that id on
\* the host they name, so the three forms of one resource on the default
\* host resolve to the same endpoint; "abc123" with default host
\* "example.org" and SSL on resolves to
\* https://example.org/api/3/action/dcserv?id=abc123.
C12_EndpointResolution ==
  last.op = "init" =>
    LET in == last.key[1]
    IN /\ \A id \in Ids :
            in.url = Bare(id) => path = Endpoint(in.use_ssl, in.host, id)
       /\ \A id \in Ids, h \in Hosts :
            /\ in.url = HostRelative(h, id) =>
                 path = Endpoint(in.use_ssl, h, id)
            /\ \A sc \in Schemes :
                 in.url = FullUrl(sc, h, id) =>
                   path = Endpoint(in.use_ssl, h, id)
       /\ (in.url = <<"abc123">> /\ in.host = <<"example.org">>
           /\ in.use_ssl) =>
            path = <<"https", "://", "example.org", "/",
                     "api/3/action/dcserv?id=", "abc123">>

\* C12 witness: a full URL with scheme http, built with SSL on and with
\* another default host, has resolved to the https endpoint of its own host
C12_Witness ==
  /\ last.op = "init"
  /\ last.key[1].url = FullUrl(HTTP, <<"example.org">>, "abc123")
  /\ last.key[1].use_ssl /\ last.key[1].host = <<"h">>
  /\ path = <<"https", "://", "example.org", "/",
              "api/3/action/dcserv?id=", "abc123">>

TraceListRequest ==
  [query |-> "trace_list", feat |-> None, trace |-> None, event |-> None]

\* C14 as stated, for lookups that return: once the first lookup of "trace"
\* has returned its trace directory, whatever lookups of "trace", channel
\* membership tests and per-channel lookups follow on the dataset, at most
\* one trace_list call has been sent.
C14_TraceListOnce ==
  FirstReturned("dir_getitem", "trace") => CallsOf("trace_list") <= 1

\* C14 amended: every lookup of "trace" in the directory sends exactly one
\* trace_list call and, when it succeeds, returns a trace directory holding
\* the channel list of that call; membership tests, keys and per-channel
\* lookups on a trace directory send no call; the lookup of a listed
\* channel returns an EventTrace for that channel, and at(i) on it sends
\* one trace query with that channel name and event=i.
C14_TraceListPerLookup ==
  /\ (last.op = "dir_getitem" /\ last.key = Some("trace")
      /\ "trace" \in Available) =>
       /\ Len(last.calls) = 1
       /\ Request(last.calls[1]) = TraceListRequest
       /\ last.err = NoErr =>
            last.ret = <<"obj", EventTraceFeature(remote.traces, path)>>
  /\ last.op \in {"tdir_contains", "tdir_keys", "tdir_getitem"} =>
       last.calls = <<>>
  /\ (last.op = "tdir_getitem" /\ last.key[1] \in Elems(remote.traces)) =>
       last.ret = <<"obj", EventTrace(last.key[1], path)>>
  /\ (last.op = "at" /\ last.key[1] \in Channels) =>
       /\ Len(last.calls) = 1
       /\ Request(last.calls[1]) =
            [query |-> "trace", feat |-> None, trace |-> last.key,
             event |-> last.ev]

\* C14 witness: after two lookups of "trace", each with its own trace_list
\* call, a listed channel is looked up without a further call
C14_Witness ==
  /\ CallsOf("trace_list") = 2
  /\ last.op = "tdir_getitem" /\ last.key = Some("fl1_raw")
  /\ last.ret = <<"obj", EventTrace("fl1_raw", path)>>
  /\ last.calls = <<>>

\* C15: an operation that cannot produce its result raises: an operation
\* one of whose transport calls got a non-success response, a directory
\* lookup of a name outside the vocabulary or not among the features of the
\* dataset, and a trace directory lookup of a channel that is not in its
\* channel list all end with an error; for an absent name the only answer
\* without an error is the FALSE of a membership test.
C15_NoSwallowedFailure ==
  /\ (\E i \in 1..Len(last.calls) : ~last.calls[i].ok) => last.err # NoErr
  /\ (last.op = "dir_getitem"
      /\ last.key[1] \notin feature_names \cap Available) =>
       last.err \in {"AssertionError", "KeyError"}
  /\ (last.op = "tdir_getitem" /\ last.key[1] \notin Elems(remote.traces)) =>
       last.err # NoErr
  /\ (last.op = "dir_contains" /\ last.key[1] \notin Available) =>
       last.ret = <<"bool", FALSE>>
  /\ (last.op = "tdir_contains" /\ last.key[1] \notin Elems(remote.traces)) =>
       last.ret = <<"bool", FALSE>>

\* C16: the construction of a dataset object from a locator without an
\* identifier (the empty locator, scheme://host with no path) fails with an
\* error raised before any transport call is sent.
C16_MalformedLocatorFails ==
  (last.op = "init" /\ last.key[1].url \in Malformed) =>
    /\ last.err # NoErr
    /\ last.calls = <<>>
    /\ TotalCalls = 0

AccessorOps ==
  {"dir_getitem", "dir_contains", "dir_keys", "tdir_getitem", "tdir_contains",
   "tdir_keys", "at", "acc_len", "iter", "next"}

\* C17: a single call of a directory lookup, a directory membership test,
\* a trace directory lookup or membership test, an accessor's at(index), an
\* accessor's len, or one step of an accessor iteration sends at most one
\* transport call, whether it returns or raises.
C17_OneCallPerMethod ==
  last.op \in AccessorOps => Len(last.calls) <= 1

\* C17 witness: the first step of an iteration, which evaluates len(self)
\* and then self[0], has yielded event 0 with one transport call
C17_Witness ==
  /\ last.op = "next" /\ last.ev = Some(0) /\ last.err = NoErr
  /\ gen[1].idx = 1 /\ Len(gen[1].yielded) = 1
  /\ Len(last.calls) = 1 /\ last.calls[1].event = Some(0)

\* C18: a get or a directory lookup whose transport call fails has sent
\* exactly that one call, raises, returns nothing and leaves the query
\* cache and the scalar cache as they were; the same request made again
\* right after it sends one new call of the same request and, when that one
\* succeeds, returns its result and stores it (in the query cache for a
\* cacheable kind, in the scalar cache for a scalar feature).
C18_FailedCallNotRetried ==
  [][last'.op \in {"get", "dir_getitem"} =>
       /\ (last'.calls # <<>> /\ last'.err # NoErr) =>
            /\ Len(last'.calls) = 1
            /\ last'.err \in {"ConnectionError", "KeyError"}
            /\ ~last'.calls[1].ok => last'.err = "ConnectionError"
            /\ last'.ret = NoValue
            /\ cache' = cache /\ scalar_cache' = scalar_cache
            /\ TotalCalls' = TotalCalls + 1
       /\ (last.op = last'.op /\ last.key = last'.key /\ last.ev = last'.ev
           /\ last.calls # <<>> /\ last.err # NoErr) =>
            /\ Len(last'.calls) = 1
            /\ Request(last'.calls[1]) = Request(last.calls[1])
            /\ TotalCalls' = TotalCalls + 1
            /\ last'.err = NoErr =>
                 /\ last'.ret # NoValue
                 /\ (last'.op = "get" /\ last'.key[1] \in cache_queries) =>
                      /\ last'.key[1] \in DOMAIN cache'
                      /\ cache'[last'.key[1]] = last'.ret
                 /\ last'.op = "dir_getitem" =>
                      (last'.key[1] \in scalar_feature_names =>
                         /\ last'.key[1] \in DOMAIN scalar_cache'
                         /\ scalar_cache'[last'.key[1]] = last'.ret)]_vars

\* C18 witness: the lookup of a scalar feature failed, was repeated with a
\* second call, and has now returned and stored the column
C18_Witness ==
  \E f \in scalar_feature_names \cap Available :
    /\ last.op = "dir_getitem" /\ last.key = Some(f) /\ last.err = NoErr
    /\ Len(last.calls) = 1
    /\ WholeColumn(f) \in DOMAIN sent /\ sent[WholeColumn(f)] = 2
    /\ f \in DOMAIN scalar_cache /\ scalar_cache[f] = last.ret
    /\ ~FirstReturned("dir_getitem", f)

\* the stores made into a cache entry: by the construction (the three
\* cacheable kinds, once each) and by the callers
WritesOf(e) ==
  (IF e[1] = "get" /\ phase = "ready" THEN 1 ELSE 0)
    + CopiesIn(e, writes)

\* C19: with two callers interleaving on one dataset object, every entry of
\* the query cache and of the scalar cache is stored at most once, and a
\* caller that returns returns the result the transport supplies for the
\* kind or feature it asked for.
C19_FirstWriterWins ==
  /\ \A rq \in ConcRequests : WritesOf(<<rq.op, rq.key>>) <= 1
  /\ \A c \in Callers :
       (callers[c].pc = "done" /\ callers[c].err = NoErr) =>
         callers[c].ret =
           IF callers[c].op = "get" THEN Answer(callers[c].key)
           ELSE asarray(RemoteResult(remote, "feature",
                                     Some(callers[c].key), None, None))

\* C20: after every step of a dataset object, whether it returned or
\* raised: the keys of the query cache are among metadata, size,
\* feature_list; the keys of the scalar cache are scalar features of the
\* vocabulary that the dataset has; every stored value is the result the
\* transport gave for it; and every entry that was there before the step is
\* still there with the same value.
C20_CacheKeySets ==
  [][/\ DOMAIN cache' \subseteq cache_queries
     /\ DOMAIN scalar_cache' \subseteq scalar_feature_names \cap Available
     /\ \A k \in DOMAIN cache' : cache'[k] = Answer(k)
     /\ \A f \in DOMAIN scalar_cache' :
          scalar_cache'[f] =
            asarray(RemoteResult(remote, "feature", Some(f), None, None))
     /\ \A k \in DOMAIN cache : k \in DOMAIN cache' /\ cache'[k] = cache[k]
     /\ \A f \in DOMAIN scalar_cache :
          f \in DOMAIN scalar_cache' /\ scalar_cache'[f] = scalar_cache[f]
    ]_vars

\* C20 witness: with the three cacheable kinds and a scalar column stored,
\* an operation has failed at the transport and the caches stand
C20_Witness ==
  /\ DOMAIN cache = cache_queries
  /\ scalar_cache # NoCache
  /\ last.err = "ConnectionError" /\ last.op \in {"at", "dir_getitem", "next"}

====
